---- MODULE Spec2Model ----
(***************************************************************************)
(* svg3d-rs (src/main.rs): a scene of triangle meshes is projected by a    *)
(* camera, mapped to a viewport, sorted by depth, culled by winding and    *)
(* written as an SVG document of one group of polygons per (view, mesh).   *)
(*                                                                         *)
(* Every number is an f32 and every operation rounds as IEEE-754 binary32  *)
(* does; coordinates are printed as f32::to_string prints them.  The sort  *)
(* is core's slice::sort_unstable_by, which panics when it finds that the  *)
(* comparator is not a total order.  Engine::render is a state machine:    *)
(* one step per group appended, one for the save; shaded counts the calls  *)
(* of a mesh's shader.                                                     *)
(***************************************************************************)
EXTENDS Integers, Sequences, FiniteSets, TLC

VARIABLES views, pc, vi, mi, document, file, writes, fault, run, prev, shaded

vars == <<views, pc, vi, mi, document, file, writes, fault, run, prev, shaded>>

(***************************************************************************)
(* f32: IEEE-754 binary32 with round-to-nearest-even.  A finite value is   *)
(* (-1)^s * m * 2^e with 0 <= m < 2^24 and -149 <= e <= 104, in canonical  *)
(* form: m >= 2^23 unless e = -149 (subnormals and the two zeros).  Every  *)
(* intermediate integer stays below 2^31.                                  *)
(***************************************************************************)
Pow2Tab ==
    <<1, 2, 4, 8, 16, 32, 64, 128, 256, 512, 1024, 2048, 4096, 8192, 16384, 32768,
      65536, 131072, 262144, 524288, 1048576, 2097152, 4194304, 8388608, 16777216,
      33554432, 67108864, 134217728, 268435456, 536870912, 1073741824>>

\* 2^k for k in 0..30
Pow2(k) == Pow2Tab[k + 1]

BitLen4 == <<0, 1, 2, 2, 3, 3, 3, 3, 4, 4, 4, 4, 4, 4, 4, 4>>

BitLen8(n) == IF n < 16 THEN BitLen4[n + 1] ELSE 4 + BitLen4[(n \div 16) + 1]

BitLen16(n) == IF n < 256 THEN BitLen8(n) ELSE 8 + BitLen8(n \div 256)

\* the number of bits of n, 0 <= n < 2^31
BitLen(n) == IF n < 65536 THEN BitLen16(n) ELSE 16 + BitLen16(n \div 65536)

MantBits == 24
MinExp == -149
MaxExp == 104

Fin(s, m, e) == [c |-> "fin", s |-> s, m |-> m, e |-> e]
Zero(s) == Fin(s, 0, MinExp)
Inf(s) == [c |-> "inf", s |-> s, m |-> 0, e |-> 0]
NaN == [c |-> "nan", s |-> 0, m |-> 0, e |-> 0]
PInf == Inf(0)
NInf == Inf(1)

IsFin(a) == a.c = "fin"
IsNaN(a) == a.c = "nan"
IsInf(a) == a.c = "inf"
IsZero(a) == a.c = "fin" /\ a.m = 0

Xor(s, t) == IF s = t THEN 0 ELSE 1

\* an exact magnitude (M + f) * 2^E with 0 <= M < 2^30 and 0 <= f < 1, f > 0
\* if and only if st (M has at least 26 bits when st)
Unrounded(s, M, E, st) == [s |-> s, M |-> M, E |-> E, st |-> st]

\* the right shift that leaves a mantissa of 24 bits, or more for a subnormal
RoundShift(u) ==
    LET floor(sh) == IF u.E + sh < MinExp THEN MinExp - u.E ELSE sh
    IN  floor(BitLen(u.M) - MantBits)

\* round to nearest, ties to even; overflow gives an infinity
Round(u) ==
    IF u.M = 0 THEN Zero(u.s)
    ELSE LET fin(m, e) == IF e > MaxExp THEN Inf(u.s) ELSE Fin(u.s, m, e)
             \* a mantissa that was rounded up to 2^24 is renormalized
             carried(m, e) ==
                 IF m = Pow2(MantBits) THEN fin(Pow2(MantBits - 1), e + 1) ELSE fin(m, e)
             up(q, rem, half) == rem > half \/ (rem = half /\ (u.st \/ q % 2 = 1))
             nearest(q, rem, half, e) == carried(IF up(q, rem, half) THEN q + 1 ELSE q, e)
             shifted(sh) ==
                 IF sh <= 0 THEN fin(u.M * Pow2(-sh), u.E + sh)
                 ELSE IF sh > 30 THEN Zero(u.s)
                 ELSE nearest(u.M \div Pow2(sh), u.M % Pow2(sh), Pow2(sh - 1), u.E + sh)
         IN  shifted(RoundShift(u))

\* does rounding change the value?
Lossy(u) ==
    /\ u.M # 0
    /\ LET lost(sh) ==
               \/ u.st
               \/ sh > 30
               \/ sh > 0 /\ u.M % Pow2(sh) # 0
               \/ u.E + sh > MaxExp
       IN  lost(RoundShift(u))

\* a finite nonzero value with its mantissa shifted up to 24 bits
Normal(a) ==
    LET shifted(k) == [m |-> a.m * Pow2(k), e |-> a.e - k]
    IN  shifted(MantBits - BitLen(a.m))

\* the f32 nearest to the integer n, |n| < 2^30
I(n) == Round(Unrounded(IF n < 0 THEN 1 ELSE 0, IF n < 0 THEN -n ELSE n, 0, FALSE))

\* the f32 nearest to n / 2^k, |n| < 2^30
Dyadic(n, k) == Round(Unrounded(IF n < 0 THEN 1 ELSE 0, IF n < 0 THEN -n ELSE n, -k, FALSE))

FNeg(a) == IF IsNaN(a) THEN NaN ELSE [a EXCEPT !.s = 1 - a.s]

\* is |a| < |b|, for finite or infinite a and b
MagLess(a, b) ==
    IF IsInf(a) THEN FALSE
    ELSE IF IsInf(b) THEN TRUE
    ELSE a.e < b.e \/ (a.e = b.e /\ a.m < b.m)

\* a < b on f32: false when either side is NaN; -0 = +0
FLt(a, b) ==
    IF IsNaN(a) \/ IsNaN(b) THEN FALSE
    ELSE IF IsZero(a) /\ IsZero(b) THEN FALSE
    ELSE IF IsZero(a) THEN b.s = 0
    ELSE IF IsZero(b) THEN a.s = 1
    ELSE IF a.s # b.s THEN a.s = 1
    ELSE IF a.s = 0 THEN MagLess(a, b) ELSE MagLess(b, a)

FGt(a, b) == FLt(b, a)

\* a == b on f32
FEq(a, b) == ~IsNaN(a) /\ ~IsNaN(b) /\ ~FLt(a, b) /\ ~FLt(b, a)

\* f32::partial_cmp
partial_cmp(a, b) ==
    IF IsNaN(a) \/ IsNaN(b) THEN "None"
    ELSE IF FLt(a, b) THEN "Less"
    ELSE IF FLt(b, a) THEN "Greater"
    ELSE "Equal"

\* the exact sum of two finite nonzero values, x the one of larger magnitude:
\* X and Y are the two magnitudes in units of 2^(x.e - 3), the bits of y
\* below the unit kept as the sticky bit st
AddExact(x, y) ==
    LET sum(X, Y, st) ==
            IF x.s = y.s THEN Unrounded(x.s, X + Y, x.e - 3, st)
            ELSE IF X = Y /\ ~st THEN Unrounded(0, 0, x.e - 3, FALSE)
            ELSE Unrounded(x.s, X - Y - (IF st THEN 1 ELSE 0), x.e - 3, st)
        aligned(d) ==
            IF d >= 27 THEN sum(x.m * 8, 0, TRUE)
            ELSE sum(x.m * 8, (y.m * 8) \div Pow2(d), (y.m * 8) % Pow2(d) # 0)
    IN  aligned(x.e - y.e)

AddOrdered(a, b) == IF MagLess(a, b) THEN AddExact(b, a) ELSE AddExact(a, b)

FAdd(a, b) ==
    IF IsNaN(a) \/ IsNaN(b) THEN NaN
    ELSE IF IsInf(a) THEN (IF IsInf(b) /\ a.s # b.s THEN NaN ELSE a)
    ELSE IF IsInf(b) THEN b
    ELSE IF IsZero(a) THEN (IF IsZero(b) THEN Zero(IF a.s = b.s THEN a.s ELSE 0) ELSE b)
    ELSE IF IsZero(b) THEN a
    ELSE Round(AddOrdered(a, b))

FSub(a, b) == FAdd(a, FNeg(b))

\* the exact product of two finite nonzero values: the mantissas of 24 bits
\* are multiplied in halves of 12 bits, and the product of 48 bits is kept to
\* 30 bits and a sticky bit
MulExact(a, b) ==
    LET joined(high, low, e) ==
            Unrounded(Xor(a.s, b.s),
                      (high + low \div 16777216) * 64 + (low % 16777216) \div 262144,
                      e, low % 262144 # 0)
        parts(hh, mid, ll, e) == joined(hh + mid \div 4096, ll + (mid % 4096) * 4096, e)
        product(x, y) ==
            parts((x.m \div 4096) * (y.m \div 4096),
                  (x.m \div 4096) * (y.m % 4096) + (x.m % 4096) * (y.m \div 4096),
                  (x.m % 4096) * (y.m % 4096),
                  x.e + y.e + 18)
    IN  product(Normal(a), Normal(b))

FMul(a, b) ==
    IF IsNaN(a) \/ IsNaN(b) THEN NaN
    ELSE IF IsInf(a) \/ IsInf(b)
         THEN (IF IsZero(a) \/ IsZero(b) THEN NaN ELSE Inf(Xor(a.s, b.s)))
    ELSE IF IsZero(a) \/ IsZero(b) THEN Zero(Xor(a.s, b.s))
    ELSE Round(MulExact(a, b))

\* k more groups of 7 bits of the quotient q with remainder r of a division
\* by d
RECURSIVE DivDigits(_, _, _, _)
DivDigits(q, r, d, k) ==
    IF k = 0 THEN [q |-> q, r |-> r]
    ELSE DivDigits(q * 128 + (r * 128) \div d, (r * 128) % d, d, k - 1)

\* the quotient of two finite nonzero values to 28 fraction bits, the rest
\* kept as a sticky bit
DivExact(a, b) ==
    LET rounded(qr, e) == Unrounded(Xor(a.s, b.s), qr.q, e, qr.r # 0)
        quotient(x, y) ==
            rounded(DivDigits(x.m \div y.m, x.m % y.m, y.m, 4), x.e - y.e - 28)
    IN  quotient(Normal(a), Normal(b))

FDiv(a, b) ==
    IF IsNaN(a) \/ IsNaN(b) THEN NaN
    ELSE IF IsInf(a) THEN (IF IsInf(b) THEN NaN ELSE Inf(Xor(a.s, b.s)))
    ELSE IF IsInf(b) THEN Zero(Xor(a.s, b.s))
    ELSE IF IsZero(b) THEN (IF IsZero(a) THEN NaN ELSE Inf(Xor(a.s, b.s)))
    ELSE IF IsZero(a) THEN Zero(Xor(a.s, b.s))
    ELSE Round(DivExact(a, b))

\* the digit-by-digit square root: pairs of bits of mm (26 bits) from the top,
\* then zero pairs
RECURSIVE SqrtBits(_, _, _, _)
SqrtBits(mm, i, root, rem) ==
    IF i = 27 THEN [root |-> root, rem |-> rem]
    ELSE LET step(r, t) ==
                 IF r >= t THEN SqrtBits(mm, i + 1, root * 2 + 1, r - t)
                 ELSE SqrtBits(mm, i + 1, root * 2, r)
         IN  step(rem * 4 + (IF i < 13 THEN (mm \div Pow2(2 * (12 - i))) % 4 ELSE 0),
                  root * 4 + 1)

\* f32::sqrt
FSqrt(a) ==
    IF IsNaN(a) THEN NaN
    ELSE IF IsZero(a) THEN a
    ELSE IF a.s = 1 THEN NaN
    ELSE IF IsInf(a) THEN a
    ELSE LET rounded(r, e) == Round(Unrounded(0, r.root, e, r.rem # 0))
             root(x, odd) ==
                 rounded(SqrtBits(IF odd = 1 THEN 2 * x.m ELSE x.m, 0, 0, 0),
                         (x.e - 28 - odd) \div 2)
             of(x) == root(x, x.e % 2)
         IN  of(Normal(a))

(***************************************************************************)
(* f32::to_string (Display): the shortest decimal that reads back as the   *)
(* same f32 and, among those, the one nearest to it, without an exponent.  *)
(* A string is a sequence of one-character strings.  A natural number of   *)
(* any size is the sequence of its decimal digits, most significant first  *)
(* (zero is the empty sequence).                                           *)
(***************************************************************************)
Digit(k) == <<"0", "1", "2", "3", "4", "5", "6", "7", "8", "9">>[k + 1]

RECURSIVE NatDigits(_)
NatDigits(n) == IF n = 0 THEN <<>> ELSE Append(NatDigits(n \div 10), n % 10)

\* the digits lo..hi of d times k plus carry, and the carry out at the top:
\* the digits lo..mid take the carry of the digits below them
RECURSIVE MulRange(_, _, _, _, _)
MulRange(d, k, lo, hi, carry) ==
    IF lo > hi THEN [digits |-> <<>>, carry |-> carry]
    ELSE IF lo = hi
    THEN LET digit(t) == [digits |-> <<t % 10>>, carry |-> t \div 10]
         IN  digit(d[lo] * k + carry)
    ELSE LET joined(left, right) ==
                 [digits |-> left.digits \o right.digits, carry |-> left.carry]
             \* the digits after mid are evaluated before those up to mid start
             upper(mid, right) ==
                 IF right.carry < 0 THEN right
                 ELSE joined(MulRange(d, k, lo, mid, right.carry), right)
             halves(mid) == upper(mid, MulRange(d, k, mid + 1, hi, carry))
         IN  halves((lo + hi) \div 2)

\* d * k for 0 < k < 2^27
MulSmall(d, k) ==
    LET whole(r) == NatDigits(r.carry) \o r.digits
    IN  whole(MulRange(d, k, 1, Len(d), 0))

\* 5^k and 2^k as digit sequences, by factors below 2^27
RECURSIVE BigPow5(_)
BigPow5(k) ==
    IF k = 0 THEN <<1>>
    ELSE LET by(step) == MulSmall(BigPow5(k - step), 5 ^ step)
         IN  by(IF k >= 11 THEN 11 ELSE k)

RECURSIVE BigPow2(_)
BigPow2(k) ==
    IF k = 0 THEN <<1>>
    ELSE LET by(step) == MulSmall(BigPow2(k - step), 2 ^ step)
         IN  by(IF k >= 26 THEN 26 ELSE k)

Zeros(q) == [i \in 1..q |-> 0] \o <<>>

PadLeft(d, n) == Zeros(n - Len(d)) \o d

\* the least and the greatest element of a set of positions, 0 when it is empty
Least(ps) == IF ps = {} THEN 0 ELSE CHOOSE i \in ps : \A j \in ps : i <= j

Greatest(ps) == IF ps = {} THEN 0 ELSE CHOOSE i \in ps : \A j \in ps : i >= j

\* the first and the last position of a nonzero digit, 0 when there is none
FirstNonzero(d) == Least({i \in 1..Len(d) : d[i] # 0})

LastNonzero(d) == Greatest({i \in 1..Len(d) : d[i] # 0})

StripLeading(d) ==
    LET from(i) == IF i = 0 THEN <<>> ELSE SubSeq(d, i, Len(d))
    IN  from(FirstNonzero(d))

StripTrailing(d) == SubSeq(d, 1, LastNonzero(d))

\* the order of two digit sequences of the same length: -1, 0 or 1
LexCmp(a, b) ==
    LET at(i) == IF i = 0 THEN 0 ELSE IF a[i] < b[i] THEN -1 ELSE 1
    IN  at(Least({i \in 1..Len(a) : a[i] # b[i]}))

\* d + 1 for a digit sequence that may have leading zeros; one digit longer
\* when d is all nines
Inc(d) ==
    LET at(i) ==
            IF i = 0 THEN <<1>> \o Zeros(Len(d))
            ELSE [j \in 1..Len(d) |-> IF j < i THEN d[j] ELSE IF j = i THEN d[j] + 1 ELSE 0]
                 \o <<>>
    IN  at(Greatest({i \in 1..Len(d) : d[i] # 9}))

\* the number of decimal places that write a finite nonzero f32 exactly, to
\* a quarter of its last binary place
DecimalPlaces(a) == IF a.e < 2 THEN 2 - a.e ELSE 0

\* 2^(e - 2) in units of 10^-DecimalPlaces
QuarterUlp(a) == IF a.e < 2 THEN BigPow5(2 - a.e) ELSE BigPow2(a.e - 2)

\* the distance, in quarters of the last place, to the midpoint below: the
\* f32 below a power of two is half as far
LowGap(a) == IF a.m = Pow2(MantBits - 1) /\ a.e > MinExp THEN 1 ELSE 2

\* the decimals that read back as a are those between the two midpoints, the
\* midpoints included when the mantissa is even
RoundingInterval(a) ==
    LET padded(lo, v, hi) ==
            [lo |-> PadLeft(lo, Len(hi)), v |-> PadLeft(v, Len(hi)), hi |-> hi,
             incl |-> a.m % 2 = 0]
        around(u) ==
            padded(MulSmall(u, 4 * a.m - LowGap(a)), MulSmall(u, 4 * a.m),
                   MulSmall(u, 4 * a.m + 2))
    IN  around(QuarterUlp(a))

\* the decimal of the fewest digits within the interval, p leading digits
\* tried first; of two candidates the nearer, the upper one at a tie
RECURSIVE Shortest(_, _)
Shortest(r, p) ==
    LET n == Len(r.hi)
        above(c) == c = 1 \/ (r.incl /\ c = 0)
        below(c) == c = -1 \/ (r.incl /\ c = 0)
        nearer(floor, ceil, okf, okc) ==
            IF okf /\ okc THEN (IF r.v[p + 1] < 5 THEN floor ELSE ceil)
            ELSE IF okf THEN floor
            ELSE IF okc THEN ceil
            ELSE Shortest(r, p + 1)
        within(head, up, floor, ceil) ==
            nearer(floor, ceil,
                   (\E i \in 1..p : head[i] # 0) /\ above(LexCmp(floor, r.lo)),
                   Len(up) = p /\ below(LexCmp(ceil, r.hi)))
        padded(head, up) == within(head, up, head \o Zeros(n - p), up \o Zeros(n - p))
        around(head) == padded(head, Inc(head))
    IN  IF \A i \in (p + 1)..n : r.v[i] = 0 THEN r.v
        ELSE around(SubSeq(r.v, 1, p))

Chars(d) == [i \in 1..Len(d) |-> Digit(d[i])] \o <<>>

\* a digit sequence with k decimal places as a string
Decimal(d, k) ==
    LET parts(ip, fp) ==
            Chars(IF ip = <<>> THEN <<0>> ELSE ip)
            \o (IF fp = <<>> THEN <<>> ELSE <<".">> \o Chars(fp))
        split(all) ==
            parts(StripLeading(SubSeq(all, 1, Len(all) - k)),
                  StripTrailing(SubSeq(all, Len(all) - k + 1, Len(all))))
    IN  split(IF Len(d) > k THEN d ELSE Zeros(k - Len(d) + 1) \o d)

to_string(a) ==
    IF IsNaN(a) THEN <<"N", "a", "N">>
    ELSE IF IsInf(a) THEN (IF a.s = 1 THEN <<"-">> ELSE <<>>) \o <<"i", "n", "f">>
    ELSE (IF a.s = 1 THEN <<"-">> ELSE <<>>)
         \o (IF a.m = 0 THEN <<"0">>
             ELSE Decimal(Shortest(RoundingInterval(a), 0), DecimalPlaces(a)))

RECURSIVE join(_, _)
join(strs, sep) ==
    IF Len(strs) = 0 THEN <<>>
    ELSE IF Len(strs) = 1 THEN strs[1]
    ELSE strs[1] \o sep \o join(Tail(strs), sep)

(***************************************************************************)
(* nalgebra: 3-vectors, 4x4 matrices (a sequence of rows),                 *)
(* Isometry3::look_at_rh and Perspective3::new.                            *)
(***************************************************************************)
Neg3(a) == <<FNeg(a[1]), FNeg(a[2]), FNeg(a[3])>>

Sub3(a, b) == <<FSub(a[1], b[1]), FSub(a[2], b[2]), FSub(a[3], b[3])>>

cross(a, b) ==
    <<FSub(FMul(a[2], b[3]), FMul(a[3], b[2])),
      FSub(FMul(a[3], b[1]), FMul(a[1], b[3])),
      FSub(FMul(a[1], b[2]), FMul(a[2], b[1]))>>

dot(a, b) == FAdd(FAdd(FMul(a[1], b[1]), FMul(a[2], b[2])), FMul(a[3], b[3]))

norm(a) == FSqrt(dot(a, a))

normalize(a) ==
    LET unscale(n) == <<FDiv(a[1], n), FDiv(a[2], n), FDiv(a[3], n)>>
    IN  unscale(norm(a))

\* Rotation3::face_towards(dir, up): the columns are the axes x, y, z
face_towards(dir, up) ==
    LET from_columns(xaxis, yaxis, zaxis) ==
            <<<<xaxis[1], yaxis[1], zaxis[1]>>,
              <<xaxis[2], yaxis[2], zaxis[2]>>,
              <<xaxis[3], yaxis[3], zaxis[3]>>>>
        with_x(xaxis, zaxis) == from_columns(xaxis, normalize(cross(zaxis, xaxis)), zaxis)
        with_z(zaxis) == with_x(normalize(cross(up, zaxis)), zaxis)
    IN  with_z(normalize(dir))

\* Rotation3::inverse: the transpose
transpose(m) ==
    <<<<m[1][1], m[2][1], m[3][1]>>,
      <<m[1][2], m[2][2], m[3][2]>>,
      <<m[1][3], m[2][3], m[3][3]>>>>

\* Isometry3::look_at_rh(&eye, &target, &up).to_homogeneous(): the rotation
\* that faces away from the target, inverted, and the translation that takes
\* the eye to the origin
look_at_rh(eye, target, up) ==
    LET from_parts(m, ne) ==
            <<<<m[1][1], m[1][2], m[1][3], dot(m[1], ne)>>,
              <<m[2][1], m[2][2], m[2][3], dot(m[2], ne)>>,
              <<m[3][1], m[3][2], m[3][3], dot(m[3], ne)>>,
              <<I(0), I(0), I(0), I(1)>>>>
    IN  from_parts(transpose(face_towards(Neg3(Sub3(target, eye)), up)), Neg3(eye))

\* f32::tan at the half angles of the cameras, rounded to the nearest f32:
\* tan(pi/4 as f32) = 1 and tan(7.5) = 2.706014
FRAC_PI_2 == Fin(0, 13176795, -23)

tan(x) ==
    CASE x = Fin(0, 13176795, -24) -> I(1)
      [] x = Fin(0, 15728640, -21) -> Fin(0, 11349845, -22)

\* Perspective3::new(aspect, fovy, znear, zfar).to_homogeneous()
Perspective3_new(aspect, fovy, znear, zfar) ==
    LET from_m22(m22) ==
            <<<<FDiv(m22, aspect), I(0), I(0), I(0)>>,
              <<I(0), m22, I(0), I(0)>>,
              <<I(0), I(0), FDiv(FAdd(zfar, znear), FSub(znear, zfar)),
                FDiv(FMul(FMul(zfar, znear), I(2)), FSub(znear, zfar))>>,
              <<I(0), I(0), I(-1), I(0)>>>>
    IN  from_m22(FDiv(I(1), tan(FDiv(fovy, I(2)))))

\* a row of a matrix times a column vector, summed from the left
Dot4(r, v) ==
    FAdd(FAdd(FAdd(FMul(r[1], v[1]), FMul(r[2], v[2])), FMul(r[3], v[3])), FMul(r[4], v[4]))

MatVec(m, v) == <<Dot4(m[1], v), Dot4(m[2], v), Dot4(m[3], v), Dot4(m[4], v)>>

Col(m, j) == <<m[1][j], m[2][j], m[3][j], m[4][j]>>

MatRow(r, b) == <<Dot4(r, Col(b, 1)), Dot4(r, Col(b, 2)), Dot4(r, Col(b, 3)), Dot4(r, Col(b, 4))>>

MatMul(a, b) == <<MatRow(a[1], b), MatRow(a[2], b), MatRow(a[3], b), MatRow(a[4], b)>>

\* Point3::to_homogeneous
to_homogeneous(p) == <<p[1], p[2], p[3], I(1)>>

\* (p2 - p1).cross(&(p3 - p1))[2]
winding(face) ==
    cross(Sub3(face[2], face[1]), Sub3(face[3], face[1]))[3]

(***************************************************************************)
(* slice::sort_unstable_by of the standard library, on a sequence of       *)
(* (face, depth) pairs of 40 bytes each.  A comparator that is not a total *)
(* order (a NaN depth is Equal to every depth) is detected when two sorted *)
(* halves are merged, and the sort panics.  A result is [ok, v]: ok is     *)
(* false when the sort panicked.                                           *)
(***************************************************************************)
\* |a, b| a.1.partial_cmp(&b.1).unwrap_or(std::cmp::Ordering::Equal)
by_depth(a, b) ==
    LET unwrap_or_equal(c) == IF c = "None" THEN "Equal" ELSE c
    IN  unwrap_or_equal(partial_cmp(a[2], b[2]))

\* the is_less the sort calls: compare(a, b) == Less
is_less(a, b) == by_depth(a, b) = "Less"

\* the same, or !is_less(b, a) when the elements equal to an ancestor pivot
\* are being partitioned off
is_less_or(le, a, b) == IF le THEN ~is_less(b, a) ELSE is_less(a, b)

\* the value of y, with x evaluated first: the loops below run as two halves,
\* the first half evaluated before the second starts
Then(x, y) == IF x = x THEN y ELSE y

MAX_LEN_ALWAYS_INSERTION_SORT == 20

SMALL_SORT_GENERAL_THRESHOLD == 32

PSEUDO_MEDIAN_REC_THRESHOLD == 64

Panicked == [ok |-> FALSE, v |-> <<>>]

Sorted(v) == [ok |-> TRUE, v |-> v]

\* the position the element x comes to rest at, moving left from tail past
\* every element it is less than, not beyond begin: the first position, from
\* tail down, that is begin or has a left neighbour x is not less than
InsertAt(v, x, begin, tail) ==
    Greatest({j \in begin..tail : j = begin \/ ~is_less(x, v[j - 1])})

\* v[tail] inserted into the sorted v[begin..tail-1]
insert_tail(v, begin, tail) ==
    LET at(j) ==
            SubSeq(v, 1, j - 1) \o <<v[tail]>> \o SubSeq(v, j, tail - 1)
            \o SubSeq(v, tail + 1, Len(v))
    IN  at(InsertAt(v, v[tail], begin, tail))

\* insert_tail for tail = lo, lo + 1, ..., hi in this order (the range is
\* halved to keep the evaluation shallow)
RECURSIVE InsertRange(_, _, _)
InsertRange(v, lo, hi) ==
    IF lo > hi THEN v
    ELSE IF lo = hi THEN insert_tail(v, 1, lo)
    ELSE LET rest(mid, first) == Then(first, InsertRange(first, mid + 1, hi))
             halves(mid) == rest(mid, InsertRange(v, lo, mid))
         IN  halves((lo + hi) \div 2)

\* the first offset elements are sorted: the others are inserted one by one
insertion_sort_shift_left(v, offset) == InsertRange(v, offset + 1, Len(v))

\* four elements sorted with five comparisons
sort4_stable(src) ==
    LET middle(min, unknown_left, unknown_right, max) ==
            IF is_less(unknown_right, unknown_left)
            THEN <<min, unknown_right, unknown_left, max>>
            ELSE <<min, unknown_left, unknown_right, max>>
        ends(a, b, c, d, c3, c4) ==
            middle(IF c3 THEN c ELSE a,
                   IF c3 THEN a ELSE IF c4 THEN c ELSE b,
                   IF c4 THEN d ELSE IF c3 THEN b ELSE c,
                   IF c4 THEN b ELSE d)
        pairs(a, b, c, d) == ends(a, b, c, d, is_less(c, a), is_less(d, b))
        halves(c1, c2) ==
            pairs(src[IF c1 THEN 2 ELSE 1], src[IF c1 THEN 1 ELSE 2],
                  src[IF c2 THEN 4 ELSE 3], src[IF c2 THEN 3 ELSE 4])
    IN  halves(is_less(src[2], src[1]), is_less(src[4], src[3]))

\* one step of the merge from both ends of the two sorted halves of src: the
\* front takes the lesser head (the left one at a tie), the back the greater
\* tail (the right one at a tie)
MergeStep(src, m) ==
    LET taken(take_l, take_r) ==
            [left |-> IF take_l THEN m.left + 1 ELSE m.left,
             right |-> IF take_l THEN m.right ELSE m.right + 1,
             left_rev |-> IF take_r THEN m.left_rev ELSE m.left_rev - 1,
             right_rev |-> IF take_r THEN m.right_rev - 1 ELSE m.right_rev,
             front |-> Append(m.front, IF take_l THEN src[m.left] ELSE src[m.right]),
             back |-> <<IF take_r THEN src[m.right_rev] ELSE src[m.left_rev]>> \o m.back]
    IN  taken(~is_less(src[m.right], src[m.left]),
              ~is_less(src[m.right_rev], src[m.left_rev]))

\* k steps of the merge (the count is halved to keep the evaluation shallow)
RECURSIVE MergeSteps(_, _, _)
MergeSteps(src, k, m) ==
    IF k = 0 THEN m
    ELSE IF k = 1 THEN MergeStep(src, m)
    ELSE LET rest(first) == Then(first, MergeSteps(src, k - k \div 2, first))
         IN  rest(MergeSteps(src, k \div 2, m))

\* the two sorted halves of src merged; panic_on_ord_violation when the two
\* ends do not meet
bidirectional_merge(src) ==
    LET len == Len(src)
        half == len \div 2
        odd == len % 2 = 1
        \* an odd length leaves one element, in the half that is not used up
        rest(m, left_nonempty) ==
            IF \/ (IF odd /\ left_nonempty THEN m.left + 1 ELSE m.left) # m.left_rev + 1
               \/ (IF odd /\ ~left_nonempty THEN m.right + 1 ELSE m.right) # m.right_rev + 1
            THEN Panicked
            ELSE Sorted(m.front
                        \o (IF ~odd THEN <<>>
                            ELSE IF left_nonempty THEN <<src[m.left]>> ELSE <<src[m.right]>>)
                        \o m.back)
        merged(m) == rest(m, m.left < m.left_rev + 1)
    IN  merged(MergeSteps(src, half,
                          [left |-> 1, right |-> half + 1, left_rev |-> half,
                           right_rev |-> len, front |-> <<>>, back |-> <<>>]))

\* one half of the slice: its first 4 elements (1 in a slice of fewer than
\* 8) presorted, the others inserted
small_sort_half(s, presorted) ==
    insertion_sort_shift_left(
        (IF presorted = 4 THEN sort4_stable(SubSeq(s, 1, 4)) ELSE SubSeq(s, 1, 1))
            \o SubSeq(s, presorted + 1, Len(s)),
        presorted)

small_sort_general(v) ==
    LET len == Len(v)
        half == len \div 2
        presorted == IF len >= 8 THEN 4 ELSE 1
    IN  IF len < 2 THEN Sorted(v)
        ELSE bidirectional_merge(small_sort_half(SubSeq(v, 1, half), presorted)
                                 \o small_sort_half(SubSeq(v, half + 1, len), presorted))

\* the position of the median of v[a], v[b], v[c]
median3(v, a, b, c) ==
    LET of(x, y) == IF x = y THEN (IF is_less(v[b], v[c]) # x THEN c ELSE b) ELSE a
    IN  of(is_less(v[a], v[b]), is_less(v[a], v[c]))

RECURSIVE median3_rec(_, _, _, _, _)
median3_rec(v, a, b, c, n) ==
    IF n * 8 >= PSEUDO_MEDIAN_REC_THRESHOLD
    THEN LET n8 == n \div 8
         IN  median3(v, median3_rec(v, a, a + n8 * 4, a + n8 * 7, n8),
                        median3_rec(v, b, b + n8 * 4, b + n8 * 7, n8),
                        median3_rec(v, c, c + n8 * 4, c + n8 * 7, n8))
    ELSE median3(v, a, b, c)

choose_pivot(v) ==
    LET len_div_8 == Len(v) \div 8
        a == 1
        b == 1 + len_div_8 * 4
        c == 1 + len_div_8 * 7
    IN  IF Len(v) < PSEUDO_MEDIAN_REC_THRESHOLD THEN median3(v, a, b, c)
        ELSE median3_rec(v, a, b, c, len_div_8)

\* one step of partition_lomuto_branchless_cyclic: the element at right goes
\* to the end of the elements less than the pivot, the one that was there
\* into the gap, and the gap moves to right
lomuto_step(p, pivot, le, right) ==
    [v |-> [p.v EXCEPT ![p.gap] = p.v[p.num_lt + 1], ![p.num_lt + 1] = p.v[right]],
     gap |-> right,
     num_lt |-> IF is_less_or(le, p.v[right], pivot) THEN p.num_lt + 1 ELSE p.num_lt]

\* the steps for right = lo, ..., hi in this order (the range is halved to
\* keep the evaluation shallow)
RECURSIVE lomuto_loop(_, _, _, _, _)
lomuto_loop(p, pivot, le, lo, hi) ==
    IF lo > hi THEN p
    ELSE IF lo = hi THEN lomuto_step(p, pivot, le, lo)
    ELSE LET rest(mid, first) == Then(first, lomuto_loop(first, pivot, le, mid + 1, hi))
             halves(mid) == rest(mid, lomuto_loop(p, pivot, le, lo, mid))
         IN  halves((lo + hi) \div 2)

\* v without its pivot partitioned: the elements less than the pivot first;
\* the first element, saved at the start, fills the last gap
partition_lomuto_branchless_cyclic(v, pivot, le) ==
    IF Len(v) = 0 THEN [v |-> v, num_lt |-> 0]
    ELSE LET last(p) ==
                 [v |-> [p.v EXCEPT ![p.gap] = p.v[p.num_lt + 1], ![p.num_lt + 1] = v[1]],
                  num_lt |-> IF is_less_or(le, v[1], pivot) THEN p.num_lt + 1
                             ELSE p.num_lt]
         IN  last(lomuto_loop([v |-> v, gap |-> 1, num_lt |-> 0], pivot, le, 2, Len(v)))

Swap(v, i, j) == [v EXCEPT ![i] = v[j], ![j] = v[i]]

\* the pivot is swapped to the front, the rest is partitioned, and the pivot
\* is swapped to its place, position num_lt + 1
partition(v, pivot_pos, le) ==
    LET placed(s, p) ==
            [v |-> Swap(<<s[1]>> \o p.v, 1, p.num_lt + 1), num_lt |-> p.num_lt]
        around(s) == placed(s, partition_lomuto_branchless_cyclic(Tail(s), s[1], le))
    IN  around(Swap(v, 1, pivot_pos))

RECURSIVE sift_down(_, _, _)
sift_down(v, len, node) ==
    LET down(child) ==
            IF ~is_less(v[node], v[child]) THEN v
            ELSE sift_down(Swap(v, node, child), len, child)
    IN  IF 2 * node > len THEN v
        ELSE down(IF 2 * node + 1 <= len /\ is_less(v[2 * node], v[2 * node + 1])
                  THEN 2 * node + 1 ELSE 2 * node)

\* one step of the loop of heapsort: while i >= len the heap is built, then
\* the maximum is swapped to position i
heapsort_step(v, i) ==
    LET len == Len(v)
    IN  IF i >= len THEN sift_down(v, len, i - len + 1)
        ELSE sift_down(Swap(v, 1, i + 1), i, 1)

\* the steps for i = hi, hi - 1, ..., lo in this order (the range is halved
\* to keep the evaluation shallow)
RECURSIVE heapsort_loop(_, _, _)
heapsort_loop(v, lo, hi) ==
    IF lo > hi THEN v
    ELSE IF lo = hi THEN heapsort_step(v, lo)
    ELSE LET rest(mid, first) == Then(first, heapsort_loop(first, lo, mid))
             halves(mid) == rest(mid, heapsort_loop(v, mid + 1, hi))
         IN  halves((lo + hi) \div 2)

heapsort(v) ==
    IF Len(v) < 2 THEN v ELSE heapsort_loop(v, 0, Len(v) + Len(v) \div 2 - 1)

\* ancestor is the pivot the slice lies to the right of, as <<pivot>>, or <<>>
RECURSIVE quicksort(_, _, _)
quicksort(v, ancestor, limit) ==
    IF Len(v) <= SMALL_SORT_GENERAL_THRESHOLD THEN small_sort_general(v)
    ELSE IF limit = 0 THEN Sorted(heapsort(v))
    ELSE LET joined(left, mid, right) ==
                 IF left.ok /\ right.ok THEN Sorted(left.v \o mid \o right.v)
                 ELSE Panicked
             \* the elements equal to the ancestor pivot are in place
             equal(p) ==
                 joined(Sorted(SubSeq(p.v, 1, p.num_lt)), <<p.v[p.num_lt + 1]>>,
                        quicksort(SubSeq(p.v, p.num_lt + 2, Len(v)), <<>>, limit - 1))
             less(p) ==
                 joined(quicksort(SubSeq(p.v, 1, p.num_lt), ancestor, limit - 1),
                        <<p.v[p.num_lt + 1]>>,
                        quicksort(SubSeq(p.v, p.num_lt + 2, Len(v)),
                                  <<p.v[p.num_lt + 1]>>, limit - 1))
             at(pivot_pos) ==
                 IF ancestor # <<>> /\ ~is_less(ancestor[1], v[pivot_pos])
                 THEN equal(partition(v, pivot_pos, TRUE))
                 ELSE less(partition(v, pivot_pos, FALSE))
         IN  at(choose_pivot(v))

\* the end of the run v[1], v[2] starts: the first n at which the slice ends
\* or v[n + 1] breaks the run (strictly descending, or not descending)
run_end(v, desc) ==
    Least({n \in 2..Len(v) : n = Len(v) \/ (is_less(v[n + 1], v[n]) <=> ~desc)})

find_existing_run(v) ==
    IF Len(v) < 2 THEN [len |-> Len(v), was_reversed |-> FALSE]
    ELSE LET run_of(desc) == [len |-> run_end(v, desc), was_reversed |-> desc]
         IN  run_of(is_less(v[2], v[1]))

Reverse(s) == [i \in 1..Len(s) |-> s[Len(s) + 1 - i]] \o <<>>

\* floor(log2(n)) for n >= 1
ilog2(n) == BitLen(n) - 1

ipnsort(v) ==
    LET len == Len(v)
        with_run(found) ==
            IF found.len = len THEN Sorted(IF found.was_reversed THEN Reverse(v) ELSE v)
            ELSE quicksort(v, <<>>, 2 * ilog2(IF len % 2 = 0 THEN len + 1 ELSE len))
    IN  with_run(find_existing_run(v))

sort_unstable_by(v) ==
    IF Len(v) < 2 THEN Sorted(v)
    ELSE IF Len(v) <= MAX_LEN_ALWAYS_INSERTION_SORT
    THEN Sorted(insertion_sort_shift_left(v, 1))
    ELSE ipnsort(v)

(***************************************************************************)
(* Data model: Camera, Viewport, Mesh, Scene, View.                        *)
(***************************************************************************)
\* the view and the projection are kept as their homogeneous matrices
Camera_new(fovy, aspect, near, far, from, to, up) ==
    [view |-> look_at_rh(from, to, up),
     projection |-> Perspective3_new(aspect, fovy, near, far)]

\* Viewport::default
Viewport_default ==
    [minx |-> Dyadic(-1, 1), miny |-> Dyadic(-1, 1), width |-> I(1), height |-> I(1)]

\* a style map is the set of its (key, value) entries
NoStyle == {}

Mesh_new(faces) == [faces |-> faces, style |-> NoStyle, shader |-> "None"]

Scene_new(meshes) == [meshes |-> meshes]

View_new(camera, scene) == [camera |-> camera, scene |-> scene, viewport |-> Viewport_default]

(***************************************************************************)
(* Engine::create_group, stage by stage.                                   *)
(***************************************************************************)
\* the sequence of the Op(s[i]), built once (a tuple, not a lazy function)
MapSeq(s, Op(_)) == [i \in 1..Len(s) |-> Op(s[i])] \o <<>>

\* from xyz to xyzw
with_w(faces) ==
    LET lift(f) == <<to_homogeneous(f[1]), to_homogeneous(f[2]), to_homogeneous(f[3])>>
    IN  MapSeq(faces, lift)

projected(projection, faces) ==
    LET mul(f) == <<MatVec(projection, f[1]), MatVec(projection, f[2]),
                    MatVec(projection, f[3])>>
    IN  MapSeq(with_w(faces), mul)

divide_by_w(p) == <<FDiv(p[1], p[4]), FDiv(p[2], p[4]), FDiv(p[3], p[4])>>

points_by_w(projection, faces) ==
    LET div(f) == <<divide_by_w(f[1]), divide_by_w(f[2]), divide_by_w(f[3])>>
    IN  MapSeq(projected(projection, faces), div)

\* variant: the mapping without the division by 2
viewport_point_nohalf(viewport, point) ==
    <<FAdd(FMul(FAdd(I(1), point[1]), viewport.width), viewport.minx),
      FAdd(FMul(FSub(I(1), point[2]), viewport.height), viewport.miny),
      point[3]>>

\* variant: the mapping without the flip of y
viewport_point_noflip(viewport, point) ==
    <<FAdd(FDiv(FMul(FAdd(I(1), point[1]), viewport.width), I(2)), viewport.minx),
      FAdd(FDiv(FMul(FAdd(I(1), point[2]), viewport.height), I(2)), viewport.miny),
      point[3]>>

\* point.x = (1.0 + point.x) * viewport.width / 2.0 + viewport.minx;
\* point.y = (1.0 - point.y) * viewport.height / 2.0 + viewport.miny;
viewport_point(viewport, point) ==
    <<FAdd(FDiv(FMul(FAdd(I(1), point[1]), viewport.width), I(2)), viewport.minx),
      FAdd(FDiv(FMul(FSub(I(1), point[2]), viewport.height), I(2)), viewport.miny),
      point[3]>>

viewport_transformed(projection, viewport, faces) ==
    LET map(f) == <<viewport_point(viewport, f[1]), viewport_point(viewport, f[2]),
                    viewport_point(viewport, f[3])>>
    IN  MapSeq(points_by_w(projection, faces), map)

\* face.iter().map(|point| point[2]).sum::<f32>() / 3.0: the sum folds from
\* -0.0, the identity of the f32 addition, and adds the three z in order (three
\* z of -0 sum to -0); the quotient is rounded to f32
z_centroid(face) ==
    FDiv(FAdd(FAdd(FAdd(Zero(1), face[1][3]), face[2][3]), face[3][3]), I(3))

z_centroids(projection, viewport, faces) ==
    LET pair(f) == <<f, z_centroid(f)>>
    IN  MapSeq(viewport_transformed(projection, viewport, faces), pair)

\* the outcome of z_centroids.sort_unstable_by(...)
sorted_centroids(projection, viewport, faces) ==
    sort_unstable_by(z_centroids(projection, viewport, faces))

\* variant: the sorted faces without the reverse
sorted_faces_noreverse(projection, viewport, faces) ==
    LET first(p) == p[1]
    IN  MapSeq(sorted_centroids(projection, viewport, faces).v, first)

\* the faces after the sort, the removal of the depths and the reverse
sorted_faces(projection, viewport, faces) ==
    LET first(p) == p[1]
    IN  Reverse(MapSeq(sorted_centroids(projection, viewport, faces).v, first))

\* Group::new().set("fill", "white").set("fill-opacity", 1.0)
\*     .set("stroke", "black").set("stroke-linejoin", "round").set("stroke-width", 0.005)
\* an attribute holds the text the value is displayed as: 1.0 as "1"
GroupAttrs ==
    [fill |-> "white", fill_opacity |-> "1", stroke |-> "black",
     stroke_linejoin |-> "round", stroke_width |-> "0.005"]

\* variant: the pairs written y first
points_attr_yx(face) ==
    LET pt(p) == join(<<to_string(p[2]), to_string(p[1])>>, <<",">>)
    IN  join(MapSeq(face, pt), <<" ">>)

\* face.iter().map(|point| [point.x.to_string(), point.y.to_string()].join(","))
\*     .collect::<Vec<String>>().join(" ")
points_attr(face) ==
    LET pt(p) == join(<<to_string(p[1]), to_string(p[2])>>, <<",">>)
    IN  join(MapSeq(face, pt), <<" ">>)

Polygon_new(face) == [points |-> points_attr(face)]

\* if winding > 0.0
emit(face) == FGt(winding(face), I(0))

\* for face in sorted_faces { if winding > 0.0 { group = group.add(polygon) } }
add_polygons(faces) == MapSeq(SelectSeq(faces, emit), Polygon_new)

\* variant: the shader of a mesh that has one called for every face
shader_calls_per_face(mesh) == IF mesh.shader = "Some" THEN Len(mesh.faces) ELSE 0

\* the calls of the mesh's shader in the loop over the sorted faces: none
\* ("// let style = shader(1, winding);")
shader_calls(mesh) == 0

\* the attributes of the group of a mesh: the mesh's style is not read
group_attrs(mesh) == GroupAttrs

\* the one place where create_group panics: the sort, when it finds that the
\* comparator is not a total order
create_group_panics(projection, viewport, mesh) ==
    ~sorted_centroids(projection, viewport, mesh.faces).ok

create_group(projection, viewport, mesh) ==
    [attrs |-> group_attrs(mesh),
     children |-> add_polygons(sorted_faces(projection, viewport, mesh.faces))]

(***************************************************************************)
(* Inputs.                                                                 *)
(***************************************************************************)
MaxFaces == 2
MaxTotalMeshes == 2
MaxViews == 2
MaxRuns == 2

P(x, y, z) == <<I(x), I(y), I(z)>>

\* fn octahedron
octahedron ==
    LET indices == <<<<0, 2, 1>>, <<0, 3, 2>>, <<0, 4, 3>>, <<0, 1, 4>>,
                     <<5, 1, 2>>, <<5, 2, 3>>, <<5, 3, 4>>, <<5, 4, 1>>>>
        faces(vertices) ==
            [i \in 1..Len(indices) |->
                <<vertices[indices[i][1] + 1], vertices[indices[i][2] + 1],
                  vertices[indices[i][3] + 1]>>] \o <<>>
        with_f(f) ==
            faces(<<<<I(0), I(-1), I(0)>>, <<FNeg(f), I(0), f>>, <<f, I(0), f>>,
                    <<f, I(0), FNeg(f)>>, <<FNeg(f), I(0), FNeg(f)>>,
                    <<I(0), I(1), I(0)>>>>)
    IN  with_f(FDiv(FSqrt(I(2)), I(2)))

\* k * point
ScalePoint(k, p) == <<FMul(k, p[1]), FMul(k, p[2]), FMul(k, p[3])>>

\* the views of fn main: the octahedron scaled by 15, seen from (13, 2, 20)
MainViews ==
    LET camera == Camera_new(I(15), I(1), I(10), I(100), P(13, 2, 20), P(0, 0, 0), P(0, 1, 0))
        scaled(face) == <<ScalePoint(I(15), face[1]), ScalePoint(I(15), face[2]),
                          ScalePoint(I(15), face[3])>>
        mesh == Mesh_new(MapSeq(octahedron, scaled))
    IN  <<View_new(camera, Scene_new(<<mesh>>))>>

\* Camera::new(pi/2, 1, 1, 3, (0, 0, 1), (0, 0, 0), y): w = 1 - z and
\* z/w = -(2z + 1) / (1 - z)
CameraNormal == Camera_new(FRAC_PI_2, I(1), I(1), I(3), P(0, 0, 1), P(0, 0, 0), P(0, 1, 0))
\* the same with near = 0 and far = 2: z/w is 1 wherever w # 0 and NaN
\* where w = 0
CameraNearZero == Camera_new(FRAC_PI_2, I(1), I(0), I(2), P(0, 0, 1), P(0, 0, 0), P(0, 1, 0))

CameraSet == {CameraNormal, CameraNearZero}

\* faces named after what CameraNormal makes of them
FaceCcw == <<P(0, 0, 0), P(1, 0, 0), P(0, 1, 0)>>
FaceCw == <<P(0, 0, 0), P(0, 1, 0), P(1, 0, 0)>>
FaceDiag == <<P(-1, -1, 0), P(1, 1, 0), P(1, -1, 0)>>
FaceDegenerate == <<P(0, 0, 0), P(0, 0, 0), P(1, 0, 0)>>
FaceFar == <<P(0, 0, -1), P(0, 1, -1), P(1, 0, -1)>>
FaceEyePlane == <<P(0, 0, 0), P(0, 1, 0), P(1, 0, 1)>>
FaceBehind == <<P(0, 0, 3), P(0, 1, 3), P(1, 0, 3)>>
\* an infinite coordinate: w and the depth are NaN
FaceNaN == <<<<PInf, I(0), I(0)>>, P(0, 1, 0), P(1, 0, 0)>>
\* a point with w = 3: its x/w is a third, rounded
FaceThird == <<P(0, 0, 0), P(0, 1, 0), P(1, 0, -2)>>
\* sides of 2^-30: 1 + x rounds to 1 and the mapped points coincide
FaceTiny == <<P(0, 0, 0), <<I(0), Dyadic(1, 30), I(0)>>, <<Dyadic(1, 30), I(0), I(0)>>>>

FaceSet ==
    {FaceCcw, FaceCw, FaceDiag, FaceDegenerate, FaceFar, FaceEyePlane, FaceBehind,
     FaceNaN, FaceThird, FaceTiny}

\* meshes of more than 20 faces, some with a NaN depth
FacesNaN21 ==
    <<FaceBehind, FaceBehind, FaceCw, FaceCw, FaceNaN, FaceNaN, FaceCw, FaceBehind,
      FaceCw, FaceNaN, FaceFar, FaceCw, FaceBehind, FaceNaN, FaceNaN, FaceCw, FaceCw,
      FaceCw, FaceNaN, FaceBehind, FaceBehind>>

FacesNaN24 ==
    <<FaceCw, FaceBehind, FaceNaN, FaceFar, FaceBehind, FaceNaN, FaceBehind, FaceBehind,
      FaceBehind, FaceCw, FaceNaN, FaceBehind, FaceCw, FaceNaN, FaceFar, FaceCw,
      FaceBehind, FaceNaN, FaceBehind, FaceBehind, FaceBehind, FaceNaN, FaceCw, FaceCw>>

\* more than 32 faces, so that the sort partitions them: FaceCw and FaceDiag
\* have the same depth, every FaceCw is given before every FaceDiag, and the
\* sort leaves a FaceDiag before the FaceCw and the others after them
Faces33 ==
    <<FaceFar, FaceFar, FaceCw, FaceBehind, FaceCw, FaceCw, FaceCw, FaceCw, FaceFar,
      FaceBehind, FaceCw, FaceBehind, FaceCw, FaceCw, FaceDiag, FaceDiag, FaceBehind,
      FaceFar, FaceDiag, FaceBehind, FaceDiag, FaceDiag, FaceDiag, FaceBehind,
      FaceDiag, FaceDiag, FaceDiag, FaceDiag, FaceDiag, FaceDiag, FaceDiag, FaceDiag,
      FaceFar>>

LargeMeshSet == {FacesNaN21, FacesNaN24, Faces33}

SeqUpTo(S, n) == UNION {[1..k -> S] : k \in 0..n}

GroupInputs ==
    {<<View_new(cam, Scene_new(<<Mesh_new(fs)>>))>> :
        cam \in CameraSet, fs \in SeqUpTo(FaceSet, MaxFaces)}
    \cup {<<View_new(CameraNormal, Scene_new(<<Mesh_new(fs)>>))>> : fs \in LargeMeshSet}
    \cup {MainViews}

Styled(mesh) == [mesh EXCEPT !.style = {<<"fill", "red">>}, !.shader = "Some"]

RenderMeshSet ==
    {Mesh_new(<<FaceCw, FaceDiag>>), Styled(Mesh_new(<<FaceCw, FaceDiag>>)),
     Mesh_new(<<FaceCcw>>)}

\* the ways to cut L meshes into n consecutive scenes
Cuts(n, L) ==
    {c \in [1..n -> 0..L] : c[n] = L /\ \A i \in 1..(n - 1) : c[i] <= c[i + 1]}

MkViews(ms, c) ==
    [i \in 1..Len(c) |->
        View_new(CameraNormal,
                 Scene_new(SubSeq(ms, (IF i = 1 THEN 0 ELSE c[i - 1]) + 1, c[i])))]

\* no view; the large mesh of tied faces; a near mesh given before a far one;
\* and the meshes of RenderMeshSet cut into views
RenderInputs ==
    {<<>>,
     <<View_new(CameraNormal, Scene_new(<<Mesh_new(Faces33)>>))>>,
     <<View_new(CameraNormal, Scene_new(<<Mesh_new(<<FaceCw>>), Mesh_new(<<FaceFar>>)>>))>>}
    \cup
    UNION {UNION {{MkViews(ms, c) : c \in Cuts(n, Len(ms))} : n \in 1..MaxViews} :
              ms \in SeqUpTo(RenderMeshSet, MaxTotalMeshes)}

(***************************************************************************)
(* Engine::render as a state machine.                                      *)
(***************************************************************************)
Absent == <<>>

\* before render is entered there is no document
NoDocument ==
    [attrs |-> [viewBox |-> "", width |-> "", height |-> ""], children |-> <<>>]

\* variant: the document of the previous render kept
Document_stale == document

\* Document::new().set("viewBox", view_box).set("width", 512).set("height", 512)
\* an attribute holds the text the value is displayed as
Document_new ==
    [attrs |-> [viewBox |-> "-0.5 -0.5 1 1", width |-> "512", height |-> "512"],
     children |-> <<>>]

\* view.camera.projection.to_homogeneous() * view.camera.view.to_homogeneous()
combined_projection(view) == MatMul(view.camera.projection, view.camera.view)

\* variant: the save not held back until the loops end
AllViewsDone_early == TRUE

\* the outer for loop has run to its end
AllViewsDone == vi > Len(views)

\* variant: the group put before the others
add_front(doc, group) == [doc EXCEPT !.children = <<group>> \o doc.children]

\* document.add(group)
add(doc, group) == [doc EXCEPT !.children = Append(doc.children, group)]

TypeInit ==
    /\ pc = "idle"
    /\ vi = 1
    /\ mi = 1
    /\ document = NoDocument
    /\ file = Absent
    /\ prev = Absent
    /\ writes = 0
    /\ fault = "none"
    /\ run = 1
    /\ shaded = 0

\* an engine of one view of one mesh
Init == views \in GroupInputs /\ TypeInit

\* an engine of several views and meshes
InitRender == views \in RenderInputs /\ TypeInit

\* render is entered: a fresh document
RenderBegin ==
    /\ pc = "idle"
    /\ pc' = "loop"
    /\ document' = Document_new
    /\ vi' = 1
    /\ mi' = 1
    /\ writes' = 0
    /\ UNCHANGED <<views, file, fault, run, prev, shaded>>

\* one iteration of the inner loop: the group of the next mesh is appended,
\* or create_group panics
AddGroup ==
    /\ pc = "loop"
    /\ vi <= Len(views)
    /\ mi <= Len(views[vi].scene.meshes)
    /\ LET view == views[vi]
           mesh == view.scene.meshes[mi]
           grouped(projection) ==
               IF create_group_panics(projection, view.viewport, mesh)
               THEN /\ pc' = "aborted"
                    /\ fault' = "create_group"
                    /\ UNCHANGED <<document, mi, shaded>>
               ELSE /\ document' = add(document, create_group(projection, view.viewport, mesh))
                    /\ shaded' = shaded + shader_calls(mesh)
                    /\ mi' = mi + 1
                    /\ UNCHANGED <<pc, fault>>
       IN  grouped(combined_projection(view))
    /\ UNCHANGED <<views, vi, file, writes, run, prev>>

\* the inner loop of a view has run to its end: on to the next view
NextView ==
    /\ pc = "loop"
    /\ vi <= Len(views)
    /\ mi > Len(views[vi].scene.meshes)
    /\ vi' = vi + 1
    /\ mi' = 1
    /\ UNCHANGED <<views, pc, document, file, writes, fault, run, prev, shaded>>

\* svg::save(filename, &document) returns Ok
SaveOk ==
    /\ pc = "loop"
    /\ AllViewsDone
    /\ file' = <<document>>
    /\ writes' = writes + 1
    /\ pc' = "done"
    /\ UNCHANGED <<views, vi, mi, document, fault, run, prev, shaded>>

\* svg::save returns Err and unwrap panics; the file is untouched (it could
\* not be created) or left without a document (created, not written)
SaveErr ==
    /\ pc = "loop"
    /\ AllViewsDone
    /\ file' \in {file, Absent}
    /\ writes' = writes + 1
    /\ pc' = "aborted"
    /\ fault' = "save"
    /\ UNCHANGED <<views, vi, mi, document, run, prev, shaded>>

\* the same engine is rendered once more
RenderAgain ==
    /\ pc = "done"
    /\ run < MaxRuns
    /\ run' = run + 1
    /\ prev' = file
    /\ pc' = "idle"
    /\ UNCHANGED <<views, vi, mi, document, file, writes, fault, shaded>>

\* one render
Next == RenderBegin \/ AddGroup \/ NextView \/ SaveOk \/ SaveErr

Spec == Init /\ [][Next]_vars

\* the engine rendered again and again
NextRender == Next \/ RenderAgain

SpecRender == InitRender /\ [][NextRender]_vars

(***************************************************************************)
(* Definitions used to state the properties.                               *)
(***************************************************************************)
\* the (View, Mesh) pairs in enumeration order: views in order, and within
\* each view the meshes of its scene in order
RECURSIVE Flatten(_)
Flatten(vs) ==
    IF Len(vs) = 0 THEN <<>>
    ELSE LET pair(mesh) == [view |-> Head(vs), mesh |-> mesh]
         IN  MapSeq(Head(vs).scene.meshes, pair) \o Flatten(Tail(vs))

Pairs == Flatten(views)

Groups == document.children

\* the groups built so far, each with the pair it was built from
Built == 1..(IF Len(Groups) < Len(Pairs) THEN Len(Groups) ELSE Len(Pairs))

PairProjection(k) == combined_projection(Pairs[k].view)
PairViewport(k) == Pairs[k].view.viewport
PairFaces(k) == Pairs[k].mesh.faces

\* the mapped faces of pair k, in the mesh's order
Mapped(k) == viewport_transformed(PairProjection(k), PairViewport(k), PairFaces(k))

Polygons(k) == Groups[k].children

Centroids(k) == z_centroids(PairProjection(k), PairViewport(k), PairFaces(k))

Count(s, x) == Cardinality({i \in 1..Len(s) : s[i] = x})

SameBag(s, t) == Len(s) = Len(t) /\ \A i \in 1..Len(s) : Count(s, s[i]) = Count(t, s[i])

Positive(face) == FGt(winding(face), I(0))

\* the mean of the three mapped z of a face
MeanDepth(face) == FDiv(FAdd(FAdd(face[1][3], face[2][3]), face[3][3]), I(3))

\* the pieces of s between the occurrences of sep
Split(s, sep) ==
    LET at == {i \in 1..Len(s) : s[i] = sep}
        pos(n) == IF n = 0 THEN 0
                  ELSE IF n > Cardinality(at) THEN Len(s) + 1
                  ELSE CHOOSE i \in at : Cardinality({j \in at : j < i}) = n - 1
    IN  [n \in 1..(Cardinality(at) + 1) |-> SubSeq(s, pos(n - 1) + 1, pos(n) - 1)] \o <<>>

IsDigit(ch) == \E d \in 0..9 : Digit(d) = ch

DigitVal(ch) == CHOOSE d \in 0..9 : Digit(d) = ch

\* does the decimal token read back (str::parse::<f32>) as the f32 a?  The
\* token is an optional "-", digits, and optionally a point and digits; it
\* reads as a when it lies between the midpoints around a.
Denotes(token, a) ==
    IF IsNaN(a) THEN token = <<"N", "a", "N">>
    ELSE IF IsInf(a) THEN token = (IF a.s = 1 THEN <<"-">> ELSE <<>>) \o <<"i", "n", "f">>
    ELSE LET neg == Len(token) > 0 /\ token[1] = "-"
             body == IF neg THEN Tail(token) ELSE token
             parts == Split(body, ".")
             ip == parts[1]
             fp == IF Len(parts) > 1 THEN parts[2] ELSE <<>>
             all == ip \o fp
             wellformed == /\ Len(parts) <= 2
                           /\ Len(ip) > 0
                           /\ Len(parts) = 2 => Len(fp) > 0
                           /\ \A i \in 1..Len(all) : IsDigit(all[i])
         IN  /\ wellformed
             /\ neg <=> a.s = 1
             /\ LET digits == [i \in 1..Len(all) |-> DigitVal(all[i])] \o <<>>
                IN  IF IsZero(a) THEN \A i \in 1..Len(digits) : digits[i] = 0
                    ELSE LET k == DecimalPlaces(a)
                             r == RoundingInterval(a)
                             n == Len(r.hi)
                             scaled == StripLeading(digits \o Zeros(k - Len(fp)))
                         IN  /\ Len(fp) <= k
                             /\ Len(scaled) <= n
                             /\ LET d == PadLeft(scaled, n)
                                    lo == LexCmp(d, r.lo)
                                    hi == LexCmp(d, r.hi)
                                IN  /\ lo = 1 \/ (r.incl /\ lo = 0)
                                    /\ hi = -1 \/ (r.incl /\ hi = 0)

\* does the polygon's points attribute read back as the three (x, y) of q?
Reads(polygon, q) ==
    LET pts == Split(polygon.points, " ")
    IN  /\ Len(pts) = 3
        /\ \A j \in 1..3 :
              LET xy == Split(pts[j], ",")
              IN  /\ Len(xy) = 2
                  /\ Denotes(xy[1], q[j][1])
                  /\ Denotes(xy[2], q[j][2])

(***************************************************************************)
(* C1.                                                                     *)
(***************************************************************************)
\* C1 as stated: for every mesh, a polygon is emitted for a face if and only
\* if the winding of its viewport-mapped x, y is strictly positive; a face
\* with winding <= 0 yields no polygon and no failure; the group of the mesh
\* holds exactly one polygon per positive-winding face and never more
\* polygons than the mesh has faces.  create_group fails for no mesh, and
\* the groups built are those.
C1_AsStated ==
    /\ fault # "create_group"
    /\ \A k \in Built :
          LET vt == Mapped(k)
              kept == {i \in 1..Len(vt) : Positive(vt[i])}
              poly == MapSeq(vt, Polygon_new)
          IN  /\ Len(Polygons(k)) = Cardinality(kept)
              /\ Len(Polygons(k)) <= Len(PairFaces(k))
              /\ \A i \in 1..Len(vt) :
                    Count(Polygons(k), poly[i]) = Cardinality({j \in kept : poly[j] = poly[i]})

(***************************************************************************)
(* C2.                                                                     *)
(***************************************************************************)
Ordered(k) == sorted_faces(PairProjection(k), PairViewport(k), PairFaces(k))

\* C2: the polygons of a group are those of the positive-winding faces taken
\* in the reverse of the ascending-depth-sorted face order, a face's depth
\* being the mean of its three mapped z: when no depth is NaN, a face that
\* comes earlier in that order is at least as deep as every later one.
C2_FarthestFirst ==
    \A k \in Built :
        LET sf == Ordered(k)
            depth == MapSeq(sf, MeanDepth)
        IN  /\ SameBag(sf, Mapped(k))
            /\ Polygons(k) = MapSeq(SelectSeq(sf, Positive), Polygon_new)
            /\ (\A i \in 1..Len(sf) : ~IsNaN(depth[i]))
                  => \A i, j \in 1..Len(sf) : i < j => ~FGt(depth[j], depth[i])

\* a finished render of a mesh of more than 20 faces, none of NaN depth,
\* given with a nearer face before a farther one, both emitted: the farther
\* one comes out first
C2_Witness ==
    /\ pc = "done"
    /\ \E k \in Built :
          LET vt == Mapped(k)
              np == Len(Polygons(k))
          IN  /\ Len(vt) > MAX_LEN_ALWAYS_INSERTION_SORT
              /\ \A i \in 1..Len(vt) : ~IsNaN(MeanDepth(vt[i]))
              /\ np >= 2
              /\ \E i, j \in 1..Len(vt) :
                    /\ i < j
                    /\ FGt(MeanDepth(vt[j]), MeanDepth(vt[i]))
                    /\ Polygons(k)[1] = Polygon_new(vt[j])
                    /\ Polygons(k)[np] = Polygon_new(vt[i])
                    /\ Polygons(k)[1] # Polygons(k)[np]

(***************************************************************************)
(* C3.                                                                     *)
(***************************************************************************)
Clip(projection, p) == MatVec(projection, <<p[1], p[2], p[3], I(1)>>)

\* out_x = (1 + x/w) * width / 2 + minx, out_y = (1 - y/w) * height / 2 + miny
ExpectedXY(projection, vp, p) ==
    LET h == Clip(projection, p)
    IN  <<FAdd(FDiv(FMul(FAdd(I(1), FDiv(h[1], h[4])), vp.width), I(2)), vp.minx),
          FAdd(FDiv(FMul(FSub(I(1), FDiv(h[2], h[4])), vp.height), I(2)), vp.miny)>>

ExpectedPolygon(projection, vp, face) ==
    <<ExpectedXY(projection, vp, face[1]), ExpectedXY(projection, vp, face[2]),
      ExpectedXY(projection, vp, face[3])>>

\* (p2 - p1) x (p3 - p1) of three (x, y)
Area2(q) ==
    FSub(FMul(FSub(q[2][1], q[1][1]), FSub(q[3][2], q[1][2])),
         FMul(FSub(q[2][2], q[1][2]), FSub(q[3][1], q[1][1])))

FinitePolygon(q) == \A j \in 1..3 : IsFin(q[j][1]) /\ IsFin(q[j][2])

\* C3: every face of positive winding and finite coordinates has a polygon
\* whose points attribute is exactly 3 coordinate pairs that read back, in
\* the face's point order, as the viewport-mapped, perspective-divided
\* projection of its points; every polygon is that of a face of positive
\* winding; z is z/w after the mapping.
C3_PolygonIsProjection ==
    \A k \in Built :
        LET projection == PairProjection(k)
            faces == PairFaces(k)
            vt == Mapped(k)
            expected(face) == ExpectedPolygon(projection, PairViewport(k), face)
            exp == MapSeq(faces, expected)
        IN  /\ \A i \in 1..Len(faces) :
                  (FinitePolygon(exp[i]) /\ FGt(Area2(exp[i]), I(0)))
                      => \E n \in 1..Len(Polygons(k)) : Reads(Polygons(k)[n], exp[i])
            /\ \A n \in 1..Len(Polygons(k)) :
                  \E i \in 1..Len(faces) :
                      FGt(Area2(exp[i]), I(0)) /\ Reads(Polygons(k)[n], exp[i])
            /\ \A i \in 1..Len(faces) : \A j \in 1..3 :
                  LET h == Clip(projection, faces[i][j])
                  IN  vt[i][j][3] = FDiv(h[3], h[4])

\* a finished render of the face with a point of w = 3: its polygon has the
\* coordinate 0.16666669, the f32 of (1 + 1/3) / 2 - 0.5
C3_Witness ==
    /\ pc = "done"
    /\ \E k \in Built :
          /\ Pairs[k].view.camera = CameraNormal
          /\ \E n \in 1..Len(Polygons(k)) :
                /\ Reads(Polygons(k)[n],
                         ExpectedPolygon(PairProjection(k), PairViewport(k), FaceThird))
                /\ Split(Split(Polygons(k)[n].points, " ")[3], ",")[1]
                      = <<"0", ".", "1", "6", "6", "6", "6", "6", "6", "9">>

(***************************************************************************)
(* C4.                                                                     *)
(***************************************************************************)
Ndc(k) == points_by_w(PairProjection(k), PairFaces(k))

\* does the default viewport send every point of pair k whose normalized
\* device coordinate is (nx, ny) to the output (ox, oy)?
DefaultMaps(k, nx, ny, ox, oy) ==
    PairViewport(k) = Viewport_default
        => LET ndc == Ndc(k)
               vt == Mapped(k)
           IN  \A i \in 1..Len(vt) : \A j \in 1..3 :
                   (FEq(ndc[i][j][1], nx) /\ FEq(ndc[i][j][2], ny))
                       => (FEq(vt[i][j][1], ox) /\ FEq(vt[i][j][2], oy))

DefaultIsHalfUnit ==
    /\ FEq(Viewport_default.minx, Dyadic(-1, 1))
    /\ FEq(Viewport_default.miny, Dyadic(-1, 1))
    /\ FEq(Viewport_default.width, I(1))
    /\ FEq(Viewport_default.height, I(1))

\* C4 (as amended): with the default viewport (minx = -0.5, miny = -0.5,
\* width = 1, height = 1), viewport mapping sends the normalized device
\* coordinate (0, 0) to (0, 0), (-1, -1) to (-0.5, 0.5) and (1, 1) to (0.5, -0.5).
C4_DefaultViewportMapping ==
    /\ DefaultIsHalfUnit
    /\ \A k \in Built :
          /\ DefaultMaps(k, I(0), I(0), I(0), I(0))
          /\ DefaultMaps(k, I(-1), I(-1), Dyadic(-1, 1), Dyadic(1, 1))
          /\ DefaultMaps(k, I(1), I(1), Dyadic(1, 1), Dyadic(-1, 1))

\* C4 as stated: (0, 0) to (0, 0), (-1, -1) to (-1, 0), (1, 1) to (0, -1)
C4_AsStated ==
    /\ DefaultIsHalfUnit
    /\ \A k \in Built :
          /\ DefaultMaps(k, I(0), I(0), I(0), I(0))
          /\ DefaultMaps(k, I(-1), I(-1), I(-1), I(0))
          /\ DefaultMaps(k, I(1), I(1), I(0), I(-1))

\* a finished render under the default viewport of a mesh with points at the
\* normalized device coordinates (0, 0), (-1, -1) and (1, 1)
C4_Witness ==
    /\ pc = "done"
    /\ \E k \in Built :
          /\ PairViewport(k) = Viewport_default
          /\ LET ndc == Ndc(k)
                 at(nx, ny) == \E i \in 1..Len(ndc) : \E j \in 1..3 :
                                   FEq(ndc[i][j][1], nx) /\ FEq(ndc[i][j][2], ny)
             IN  at(I(0), I(0)) /\ at(I(-1), I(-1)) /\ at(I(1), I(1))

(***************************************************************************)
(* C7.                                                                     *)
(***************************************************************************)
\* C7 as stated: numeric degeneracy never aborts a render: whatever w,
\* centroid depth or area the faces have, create_group completes and a
\* finished render has a group for every pair; a depth comparison involving
\* NaN is Equal, and the sort ends with a permutation of the mesh's faces.
C7_AsStated ==
    /\ fault # "create_group"
    /\ pc = "done" => Len(Groups) = Len(Pairs)
    /\ \A k \in Built :
          LET zc == Centroids(k)
              st == sort_unstable_by(zc)
          IN  /\ st.ok
              /\ SameBag(st.v, zc)
              /\ \A a, b \in 1..Len(zc) :
                    (IsNaN(zc[a][2]) \/ IsNaN(zc[b][2])) => by_depth(zc[a], zc[b]) = "Equal"

(***************************************************************************)
(* C10.                                                                    *)
(***************************************************************************)
\* is the f32 result of the operation the exact one?
ExactAdd(a, b) ==
    IsFin(a) /\ IsFin(b) /\ (IsZero(a) \/ IsZero(b) \/ ~Lossy(AddOrdered(a, b)))

ExactSub(a, b) == ExactAdd(a, FNeg(b))

ExactMul(a, b) ==
    IsFin(a) /\ IsFin(b) /\ (IsZero(a) \/ IsZero(b) \/ ~Lossy(MulExact(a, b)))

ExactDiv(a, b) ==
    IsFin(a) /\ IsFin(b) /\ ~IsZero(b) /\ (IsZero(a) \/ ~Lossy(DivExact(a, b)))

\* is every operation of (p2 - p1) x (p3 - p1) exact?
ExactArea(q) ==
    /\ ExactSub(q[2][1], q[1][1]) /\ ExactSub(q[3][2], q[1][2])
    /\ ExactSub(q[2][2], q[1][2]) /\ ExactSub(q[3][1], q[1][1])
    /\ ExactMul(FSub(q[2][1], q[1][1]), FSub(q[3][2], q[1][2]))
    /\ ExactMul(FSub(q[2][2], q[1][2]), FSub(q[3][1], q[1][1]))
    /\ ExactSub(FMul(FSub(q[2][1], q[1][1]), FSub(q[3][2], q[1][2])),
                FMul(FSub(q[2][2], q[1][2]), FSub(q[3][1], q[1][1])))

\* is every operation of the viewport mapping of the point exact?
ExactPoint(vp, p) ==
    /\ ExactAdd(I(1), p[1])
    /\ ExactMul(FAdd(I(1), p[1]), vp.width)
    /\ ExactDiv(FMul(FAdd(I(1), p[1]), vp.width), I(2))
    /\ ExactAdd(FDiv(FMul(FAdd(I(1), p[1]), vp.width), I(2)), vp.minx)
    /\ ExactSub(I(1), p[2])
    /\ ExactMul(FSub(I(1), p[2]), vp.height)
    /\ ExactDiv(FMul(FSub(I(1), p[2]), vp.height), I(2))
    /\ ExactAdd(FDiv(FMul(FSub(I(1), p[2]), vp.height), I(2)), vp.miny)

\* -(width * height / 4)
AreaScale(vp) == FNeg(FDiv(FMul(vp.width, vp.height), I(4)))

MapFace(vp, f) ==
    <<viewport_point(vp, f[1]), viewport_point(vp, f[2]), viewport_point(vp, f[3])>>

\* no f32 operation on the way from the normalized device coordinates to the
\* two sides of the equation rounds
ExactCase(vp, f) ==
    /\ \A j \in 1..3 : ExactPoint(vp, f[j])
    /\ ExactArea(f)
    /\ ExactArea(MapFace(vp, f))
    /\ ExactMul(vp.width, vp.height)
    /\ ExactDiv(FMul(vp.width, vp.height), I(4))
    /\ ExactMul(AreaScale(vp), Area2(f))

Unplaced(vp) == [vp EXCEPT !.minx = I(0), !.miny = I(0)]

ViewportSet ==
    {Viewport_default, [minx |-> I(3), miny |-> I(-2), width |-> I(2), height |-> I(4)]}

ZeroZ(face) ==
    <<<<face[1][1], face[1][2], I(0)>>, <<face[2][1], face[2][2], I(0)>>,
      <<face[3][1], face[3][2], I(0)>>>>

Emitted(k, face) == \E n \in 1..Len(Polygons(k)) : Polygons(k)[n] = Polygon_new(face)

\* the equation and the equivalence of C10 for the face f (in normalized
\* device coordinates) of pair k under the viewport vp
FlippedArea(k, vp, f) ==
    LET mapped == MapFace(vp, f)
    IN  /\ FEq(winding(mapped), FMul(AreaScale(vp), Area2(f)))
        /\ FEq(winding(mapped), winding(MapFace(Unplaced(vp), f)))
        /\ Positive(mapped) <=> FGt(I(0), Area2(f))
        /\ vp = PairViewport(k) => (Emitted(k, mapped) <=> FGt(I(0), Area2(f)))
        /\ winding(ZeroZ(mapped)) = winding(mapped)

\* C10 (as amended): when no f32 operation of the viewport mapping, of the
\* two signed areas and of the product rounds, the winding of a mapped face
\* is -(width * height / 4) times the signed area of the face in normalized
\* device coordinates, whatever minx and miny, and with width > 0 and
\* height > 0 the face is emitted if and only if that area is strictly
\* negative; the z values play no part.
C10_WindingIsFlippedNdcArea ==
    \A k \in Built :
        LET ndc == Ndc(k)
        IN  \A i \in 1..Len(ndc) : \A vp \in ViewportSet :
                (ExactCase(vp, ndc[i]) /\ ExactCase(Unplaced(vp), ndc[i]))
                    => FlippedArea(k, vp, ndc[i])

\* C10 as stated: the same of every face of finite coordinates, rounding or
\* not
C10_AsStated ==
    \A k \in Built :
        LET ndc == Ndc(k)
        IN  \A i \in 1..Len(ndc) : \A vp \in ViewportSet :
                (FinitePolygon(ndc[i]) /\ FinitePolygon(MapFace(vp, ndc[i])))
                    => FlippedArea(k, vp, ndc[i])

\* a finished render of a mesh with a face of negative area in normalized
\* device coordinates (emitted) and one of positive area (culled), at
\* different depths, no operation on either rounding under any viewport
C10_Witness ==
    /\ pc = "done"
    /\ \E k \in Built :
          LET ndc == Ndc(k)
              vt == Mapped(k)
          IN  \E i, j \in 1..Len(vt) :
                  /\ \A vp \in ViewportSet : ExactCase(vp, ndc[i]) /\ ExactCase(vp, ndc[j])
                  /\ FGt(I(0), Area2(ndc[i])) /\ Emitted(k, vt[i])
                  /\ FGt(Area2(ndc[j]), I(0)) /\ ~Emitted(k, vt[j])
                  /\ vt[i][1][3] # vt[j][1][3]

(***************************************************************************)
(* C5.                                                                     *)
(***************************************************************************)
GroupOf(pair) == create_group(combined_projection(pair.view), pair.view.viewport, pair.mesh)

AllCulled(k) == LET vt == Mapped(k) IN \A i \in 1..Len(vt) : ~Positive(vt[i])

\* C5: the document holds one group per (View, Mesh) pair, in enumeration
\* order (views in order, within a view its meshes in order): the groups
\* built so far are those of the first pairs, a finished render has them
\* all, and a mesh whose every face is culled has its group, without polygons.
C5_OneGroupPerPair ==
    /\ Len(Groups) <= Len(Pairs)
    /\ \A k \in Built : Groups[k] = GroupOf(Pairs[k])
    /\ pc = "done" =>
          /\ Len(Groups) = Len(Pairs)
          /\ file = <<document>>
          /\ \A k \in Built : AllCulled(k) => Polygons(k) = <<>>

\* a finished render of two views of one mesh each, the first mesh wholly
\* culled (an empty group) and followed by a group with polygons
C5_Witness ==
    /\ pc = "done"
    /\ Len(views) = 2
    /\ Len(views[1].scene.meshes) = 1
    /\ Len(Groups) = 2
    /\ AllCulled(1) /\ Polygons(1) = <<>>
    /\ Polygons(2) # <<>>
    /\ file = <<document>>

TiesReordered(vt, polygons) ==
    \E f, g \in {vt[i] : i \in 1..Len(vt)} :
        /\ Polygon_new(f) # Polygon_new(g)
        /\ Positive(f) /\ Positive(g)
        /\ FEq(MeanDepth(f), MeanDepth(g))
        /\ \A i, j \in 1..Len(vt) : (vt[i] = f /\ vt[j] = g) => i < j
        /\ \E a, b \in 1..Len(polygons) :
              a < b /\ polygons[a] = Polygon_new(f) /\ polygons[b] = Polygon_new(g)

WriteStep ==
    /\ writes = 0
    /\ writes' = 1
    /\ Len(Groups) = Len(Pairs)
    /\ document' = document
    /\ pc' \in {"done", "aborted"}
    /\ pc' = "done" => file' = <<document>>
    /\ pc' = "aborted" => fault' = "save"

\* C8: a render writes the document once, and only when the groups of all
\* meshes of all views are in it; nothing is written while groups are being
\* built; when the write fails the run is aborted and nothing follows.
C8_SingleFinalWrite ==
    /\ [](writes <= 1 /\ (pc = "done" => writes = 1))
    /\ [][/\ pc # "aborted"
          /\ file' # file => writes' = writes + 1
          /\ writes' # writes => ((writes' = 0 /\ pc' = "loop") \/ WriteStep)]_vars

\* a second render that failed to write the complete document of two groups
\* or more, after a first render that wrote it
C8_Witness ==
    /\ run = 2
    /\ pc = "aborted"
    /\ fault = "save"
    /\ writes = 1
    /\ prev # Absent
    /\ Len(Groups) >= 2
    /\ Len(Groups) = Len(Pairs)

(***************************************************************************)
(* C9.                                                                     *)
(***************************************************************************)
\* C9: the output does not depend on a mesh's style map or shader: meshes of
\* the same faces under the same view have identical groups, the shader of
\* no mesh is called, every group has the fixed attributes (fill white,
\* fill-opacity 1.0, displayed as 1, stroke black, stroke-linejoin round,
\* stroke-width 0.005), and a polygon has nothing but its points.
C9_StyleAndShaderIgnored ==
    /\ shaded = 0
    /\ \A k \in Built :
          /\ Groups[k].attrs =
                [fill |-> "white", fill_opacity |-> "1", stroke |-> "black",
                 stroke_linejoin |-> "round", stroke_width |-> "0.005"]
          /\ \A n \in 1..Len(Polygons(k)) : DOMAIN Polygons(k)[n] = {"points"}
    /\ \A k1, k2 \in Built :
          (/\ Pairs[k1].view.camera = Pairs[k2].view.camera
           /\ PairViewport(k1) = PairViewport(k2)
           /\ PairFaces(k1) = PairFaces(k2))
              => Groups[k1] = Groups[k2]

\* a finished render with two meshes of the same faces, one with a style and
\* a shader and one without, both with polygons, and the shader not called
C9_Witness ==
    /\ pc = "done"
    /\ shaded = 0
    /\ \E k1, k2 \in Built :
          /\ PairFaces(k1) = PairFaces(k2)
          /\ Pairs[k1].mesh.style = NoStyle /\ Pairs[k1].mesh.shader = "None"
          /\ Pairs[k2].mesh.style # NoStyle /\ Pairs[k2].mesh.shader = "Some"
          /\ Polygons(k1) # <<>>
          /\ Groups[k1] = Groups[k2]

====
